---- MODULE Spec2Model ----
(***************************************************************************)
(* Model of src/mechanics/ctx.py: read_files_recursively walks a directory *)
(* tree with os.walk, keeps the files whose lower-cased extension is in    *)
(* valid_extensions, reads each one as UTF-8 text and prints it to stdout  *)
(* between code fences; an Exception raised inside the try block is        *)
(* reported with one "Could not read" line.                                *)
(*                                                                         *)
(* Text is a sequence of character tokens.  Three tokens stand for the     *)
(* data the program cannot pass through unchanged:                         *)
(*   "0xff"    a byte that is not valid UTF-8 (f.read() raises             *)
(*             UnicodeDecodeError on file bytes holding it),               *)
(*   "U+DCFF"  the surrogate os.walk puts in a file name for such a byte   *)
(*             (sys.stdout cannot encode it: print raises                  *)
(*             UnicodeEncodeError),                                        *)
(*   "U+2192"  a character that decodes from UTF-8 but that the encoding   *)
(*             of sys.stdout cannot represent (a legacy code page).        *)
(***************************************************************************)
EXTENDS Integers, Sequences, FiniteSets, TLC

\* ------------------------------------------------------------------ bounds
NumDirs == 4
NumFiles == 3
MaxNameLen == 4

\* -------------------------------------------------------- the directory tree
Dirs == 1..NumDirs
Files == 1..NumFiles
Cwd == 1

\* Directory d lies in directory d \div 2; directory 1 is the top of the tree.
Parent(d) == d \div 2

\* File 1 lies in the top directory, the others in the last directory.
DirOf(f) == IF f = 1 THEN Cwd ELSE NumDirs

SubDirs(d) == {c \in Dirs : c # d /\ Parent(c) = d}
FilesIn(d) == {f \in Files : DirOf(f) = d}

RECURSIVE Beneath(_, _)
Beneath(d, top) ==
  IF d = top THEN TRUE
  ELSE IF d <= 1 THEN FALSE
  ELSE Beneath(Parent(d), top)

\* ------------------------------------------------------------ characters
ToLower(c) ==
  CASE c = "A" -> "a" [] c = "B" -> "b" [] c = "D" -> "d" [] c = "E" -> "e"
    [] c = "M" -> "m" [] c = "R" -> "r" [] c = "S" -> "s" [] c = "T" -> "t"
    [] OTHER -> c

\* str.lower()
lower(s) == [i \in 1..Len(s) |-> ToLower(s[i])]

Chars(s) == {s[i] : i \in 1..Len(s)}

\* bytes.decode("utf-8") succeeds
Decodable(bytes) == "0xff" \notin Chars(bytes)

\* str.encode(sys.stdout.encoding) succeeds
Encodable(text) == Chars(text) \cap {"U+DCFF", "U+2192"} = {}

\* ------------------------------------------------------- valid_extensions
valid_extensions ==
  { <<".", "r", "s">>, <<".", "t", "o", "m", "l">>, <<".", "m", "d">> }

\* str.rfind of one character: the last index holding c, 0 when there is none
rfind(p, c) ==
  LET at == {i \in 1..Len(p) : p[i] = c}
  IN IF at = {} THEN 0 ELSE CHOOSE i \in at : \A j \in at : j <= i

\* The loop of os.path.splitext: the extension starts at the last dot unless
\* only dots come before it.
RECURSIVE splitScan(_, _, _)
splitScan(p, filenameIndex, dotIndex) ==
  IF filenameIndex < dotIndex
  THEN IF p[filenameIndex] # "."
       THEN <<SubSeq(p, 1, dotIndex - 1), SubSeq(p, dotIndex, Len(p))>>
       ELSE splitScan(p, filenameIndex + 1, dotIndex)
  ELSE <<p, <<>>>>

\* A plausible slip: the text from the last dot on, leading dots included.
splitextNaive(p) ==
  LET dotIndex == rfind(p, ".")
  IN IF dotIndex > 0
     THEN <<SubSeq(p, 1, dotIndex - 1), SubSeq(p, dotIndex, Len(p))>>
     ELSE <<p, <<>>>>

\* os.path.splitext(file): <<root, ext>>
splitext(p) ==
  LET sepIndex == rfind(p, "/")
      dotIndex == rfind(p, ".")
  IN IF dotIndex > sepIndex
     THEN splitScan(p, sepIndex + 1, dotIndex)
     ELSE <<p, <<>>>>

\* A plausible slip: any file that has an extension at all is taken.
IncludedAnyExt(file) == splitext(file)[2] # <<>>

\* ext.lower() in valid_extensions
Included(file) == lower(splitext(file)[2]) \in valid_extensions


\* ------------------------------------------------------- the file system
Plain == <<"f", "n">>
Wide == <<"U+2192">>
Binary == <<"0xff">>
FileData == {Plain, Wide, Binary}

WalkNames ==
  { <<"a", ".", "r", "s">>, <<"c", ".", "t", "x", "t">>,
    <<"U+DCFF", ".", "m", "d">> }

\* "." names the current working directory.
Dot == Cwd

VARIABLES
  name,        \* file -> its name in its directory
  perm,        \* file -> whether open(file_path, "r") is permitted
  data,        \* file -> the bytes it holds
  denied,      \* the directories os.scandir raises OSError for
  argv,        \* the command-line arguments after the script name
  run,         \* 1 in the first execution of the script, 2 in the second
  prev,        \* what the first execution printed
  pc,          \* the statement the interpreter is at
  base_dir,    \* read_files_recursively's parameter
  stack,       \* os.walk: the directories still to list, the next one first
  root,        \* the directory os.walk yielded last
  files,       \* the entries of `files` the inner loop has not taken yet
  file,        \* the loop variable `file` (0 before the first one)
  file_path,   \* os.path.join(root, file)
  content,     \* what f.read() returned
  exc,         \* the exception on its way to the except clause
  isOpen,      \* the files that are open
  out,         \* the lines written to sys.stdout
  status,      \* the exit status once the script has ended (-1 before)
  opens,       \* file -> how many times open() was called on it
  skipped,     \* the files the extension test passed over
  readOk,      \* the files f.read() returned for
  readFailed   \* the files open() or f.read() raised for

fsVars == <<name, perm, data, denied, argv>>
runVars == <<run, prev>>
walkVars == <<base_dir, stack, root, files>>
fileVars == <<file, file_path, content, exc, isOpen>>
histVars == <<opens, skipped, readOk, readFailed>>
vars == <<fsVars, runVars, pc, walkVars, fileVars, out, status, histVars>>

NoPath == [root |-> <<>>, file |-> <<>>]
Line(kind, path, text) == [kind |-> kind, path |-> path, text |-> text]
Blank == Line("blank", NoPath, <<>>)
Fence == Line("fence", NoPath, <<>>)

\* The directories from base down to d: the `root` string os.walk yields for d.
RECURSIVE RootPath(_, _)
RootPath(d, base) ==
  IF d = base \/ d <= 1 THEN <<d>>
  ELSE Append(RootPath(Parent(d), base), d)

\* os.path.join(root, file)
join(d, f) == [root |-> RootPath(d, base_dir), file |-> name[f]]

\* The orders in which os.scandir may return the entries of a set.
Orders(S) ==
  {s \in [1..Cardinality(S) -> S] : \A i, j \in 1..Cardinality(S) : s[i] = s[j] => i = j}

\* ------------------------------------------------------------------ Init
\* A file system: names are unique within a directory; a file that cannot be
\* opened, or that the extension test passes over, is never read, so its bytes
\* are left at Plain.
FileSystems ==
  /\ name \in [Files -> WalkNames]
  /\ \A f, g \in Files : (f # g /\ DirOf(f) = DirOf(g)) => name[f] # name[g]
  /\ perm \in [Files -> BOOLEAN]
  /\ data \in [Files -> FileData]
  /\ \A f \in Files : (~perm[f] \/ ~Included(name[f])) => data[f] = Plain

NotStarted ==
  /\ pc = "start"
  /\ base_dir = 0
  /\ stack = <<>>
  /\ root = 0
  /\ files = {}
  /\ file = 0
  /\ file_path = NoPath
  /\ content = <<>>
  /\ exc = "none"
  /\ isOpen = {}
  /\ out = <<>>
  /\ status = -1
  /\ opens = [f \in Files |-> 0]
  /\ skipped = {}
  /\ readOk = {}
  /\ readFailed = {}

Init ==
  /\ FileSystems
  /\ denied \in {{}} \cup {{d} : d \in Dirs}
  /\ argv \in {<<>>, <<NumDirs>>}
  /\ run = 1
  /\ prev = <<>>
  /\ NotStarted

\* --------------------------------------------------------------- __main__
\* A plausible slip: the directory is taken from the command line.
StartDirFromArgv == IF argv # <<>> THEN argv[1] ELSE Dot

\* The argument of the call in __main__: read_files_recursively(".")
StartDir == Dot

Main ==
  /\ pc = "start"
  /\ base_dir' = StartDir
  /\ stack' = <<StartDir>>
  /\ pc' = "walk"
  /\ UNCHANGED <<fsVars, runVars, root, files, fileVars, out, status, histVars>>

\* ---------------------------------------------------------------- os.walk
\* os.walk lists the next directory, top-down: it yields (root, dirs, files)
\* and puts the subdirectories, in the order scandir gave them, before the
\* directories already waiting.
WalkYield ==
  /\ pc = "walk"
  /\ stack # <<>>
  /\ Head(stack) \notin denied
  /\ root' = Head(stack)
  /\ files' = FilesIn(Head(stack))
  /\ \E dirs \in Orders(SubDirs(Head(stack))) : stack' = dirs \o Tail(stack)
  /\ pc' = "files"
  /\ UNCHANGED <<fsVars, runVars, base_dir, fileVars, out, status, histVars>>

\* os.scandir(top) raises OSError and onerror is None: os.walk goes on to the
\* next directory without yielding this one.
WalkSkip ==
  /\ pc = "walk"
  /\ stack # <<>>
  /\ Head(stack) \in denied
  /\ stack' = Tail(stack)
  /\ UNCHANGED <<fsVars, runVars, pc, base_dir, root, files, fileVars, out,
                 status, histVars>>

\* os.walk is exhausted: read_files_recursively returns and the script ends.
WalkDone ==
  /\ pc = "walk"
  /\ stack = <<>>
  /\ pc' = "exit"
  /\ status' = 0
  /\ UNCHANGED <<fsVars, runVars, walkVars, fileVars, out, histVars>>

\* for file in files: the extension test
NextFile ==
  /\ pc = "files"
  /\ \E f \in files :
       /\ files' = files \ {f}
       /\ file' = f
       /\ IF Included(name[f])
          THEN /\ file_path' = join(root, f)
               /\ pc' = "open"
               /\ UNCHANGED skipped
          ELSE /\ skipped' = skipped \cup {f}
               /\ UNCHANGED <<file_path, pc>>
  /\ UNCHANGED <<fsVars, runVars, base_dir, stack, root, content, exc, isOpen,
                 out, status, opens, readOk, readFailed>>

FilesDone ==
  /\ pc = "files"
  /\ files = {}
  /\ pc' = "walk"
  /\ UNCHANGED <<fsVars, runVars, walkVars, fileVars, out, status, histVars>>

\* ------------------------------------------------------- the try statement
\* open(file_path, "r", encoding="utf-8")
Open ==
  /\ pc = "open"
  /\ opens' = [opens EXCEPT ![file] = @ + 1]
  /\ IF perm[file]
     THEN /\ isOpen' = isOpen \cup {file}
          /\ pc' = "read"
          /\ UNCHANGED <<exc, readFailed>>
     ELSE /\ exc' = "PermissionError"
          /\ readFailed' = readFailed \cup {file}
          /\ pc' = "except"
          /\ UNCHANGED isOpen
  /\ UNCHANGED <<fsVars, runVars, walkVars, file, file_path, content, out,
                 status, skipped, readOk>>

\* A plausible slip: f = open(...); content = f.read(); f.close() closes the
\* file only when the read returns.
ReadNoWith ==
  /\ pc = "read"
  /\ IF Decodable(data[file])
     THEN /\ content' = data[file]
          /\ readOk' = readOk \cup {file}
          /\ isOpen' = isOpen \ {file}
          /\ pc' = "header"
          /\ UNCHANGED <<exc, readFailed>>
     ELSE /\ exc' = "UnicodeDecodeError"
          /\ readFailed' = readFailed \cup {file}
          /\ pc' = "except"
          /\ UNCHANGED <<content, readOk, isOpen>>
  /\ UNCHANGED <<fsVars, runVars, walkVars, file, file_path, out, status,
                 opens, skipped>>

\* content = f.read(), and the with statement's exit, which closes the file
\* whether the read returned or raised.
Read ==
  /\ pc = "read"
  /\ isOpen' = isOpen \ {file}
  /\ IF Decodable(data[file])
     THEN /\ content' = data[file]
          /\ readOk' = readOk \cup {file}
          /\ pc' = "header"
          /\ UNCHANGED <<exc, readFailed>>
     ELSE /\ exc' = "UnicodeDecodeError"
          /\ readFailed' = readFailed \cup {file}
          /\ pc' = "except"
          /\ UNCHANGED <<content, readOk>>
  /\ UNCHANGED <<fsVars, runVars, walkVars, file, file_path, out, status,
                 opens, skipped>>

\* print(f"### {file_path}\n"): the header line and an empty line, or
\* UnicodeEncodeError with nothing written.
PrintHeader ==
  /\ pc = "header"
  /\ IF Encodable(file_path.file)
     THEN /\ out' = out \o <<Line("header", file_path, <<>>), Blank>>
          /\ pc' = "fence"
          /\ UNCHANGED exc
     ELSE /\ exc' = "UnicodeEncodeError"
          /\ pc' = "except"
          /\ UNCHANGED out
  /\ UNCHANGED <<fsVars, runVars, walkVars, file, file_path, content, isOpen,
                 status, histVars>>

\* print('```'): three ASCII characters, which every encoding of sys.stdout
\* can represent.
PrintFence ==
  /\ pc = "fence"
  /\ out' = Append(out, Fence)
  /\ pc' = "content"
  /\ UNCHANGED <<fsVars, runVars, walkVars, fileVars, status, histVars>>

\* print(content)
PrintContent ==
  /\ pc = "content"
  /\ IF Encodable(content)
     THEN /\ out' = Append(out, Line("content", NoPath, content))
          /\ pc' = "close"
          /\ UNCHANGED exc
     ELSE /\ exc' = "UnicodeEncodeError"
          /\ pc' = "except"
          /\ UNCHANGED out
  /\ UNCHANGED <<fsVars, runVars, walkVars, file, file_path, content, isOpen,
                 status, histVars>>

\* print('```\n')
PrintClose ==
  /\ pc = "close"
  /\ out' = out \o <<Fence, Blank>>
  /\ pc' = "files"
  /\ UNCHANGED <<fsVars, runVars, walkVars, fileVars, status, histVars>>

\* except Exception as e: print(f"Could not read {file_path}: {e}").  The
\* print raises UnicodeEncodeError itself when file_path cannot be encoded:
\* nothing catches that, and the script ends with a traceback and status 1.
Except ==
  /\ pc = "except"
  /\ IF Encodable(file_path.file)
     THEN /\ out' = Append(out, Line("diag", file_path, <<exc>>))
          /\ exc' = "none"
          /\ pc' = "files"
          /\ UNCHANGED status
     ELSE /\ exc' = "UnicodeEncodeError"
          /\ pc' = "exit"
          /\ status' = 1
          /\ UNCHANGED out
  /\ UNCHANGED <<fsVars, runVars, walkVars, file, file_path, content, isOpen,
                 histVars>>

\* The script is run a second time on the unchanged tree.
Rerun ==
  /\ pc = "exit"
  /\ run = 1
  /\ run' = 2
  /\ prev' = out
  /\ pc' = "start"
  /\ base_dir' = 0
  /\ stack' = <<>>
  /\ root' = 0
  /\ files' = {}
  /\ file' = 0
  /\ file_path' = NoPath
  /\ content' = <<>>
  /\ exc' = "none"
  /\ isOpen' = {}
  /\ out' = <<>>
  /\ status' = -1
  /\ opens' = [f \in Files |-> 0]
  /\ skipped' = {}
  /\ readOk' = {}
  /\ readFailed' = {}
  /\ UNCHANGED fsVars

Next ==
  \/ Main
  \/ WalkYield
  \/ WalkSkip
  \/ WalkDone
  \/ NextFile
  \/ FilesDone
  \/ Open
  \/ Read
  \/ PrintHeader
  \/ PrintFence
  \/ PrintContent
  \/ PrintClose
  \/ Except

\* One execution of the script.
Spec == Init /\ [][Next]_vars

\* Two executions of the script, one after the other, on the same tree.
InitTwice ==
  /\ FileSystems
  /\ denied \in {{}, {NumDirs}}
  /\ argv = <<>>
  /\ run = 1
  /\ prev = <<>>
  /\ NotStarted

NextTwice == Next \/ Rerun

SpecTwice == InitTwice /\ [][NextTwice]_vars


\* ------------------------------------------- file systems for the name test
\* The file of the top directory carries any name of at most MaxNameLen
\* characters over Alphabet, or one of the names the documentation gives; the
\* other files carry distinct names without a dot.
Alphabet == {".", "m", "d", "M", "x"}

DocNames ==
  { <<"A", ".", "R", "S">>, <<"b", ".", "T", "o", "m", "l">>,
    <<"x", ".", "t", "a", "r", ".", "m", "d">>,
    <<"x", ".", "m", "d", ".", "b", "a", "k">>,
    <<".", "m", "d">>, <<"R", "E", "A", "D", "M", "E">> }

ProbeNames == DocNames \cup UNION {[1..n -> Alphabet] : n \in 1..MaxNameLen}

InitExt ==
  /\ \E n \in ProbeNames :
       name = [f \in Files |-> IF f = 1 THEN n ELSE [i \in 1..f |-> "x"]]
  /\ \E p \in BOOLEAN : perm = [f \in Files |-> IF f = 1 THEN p ELSE TRUE]
  /\ data = [f \in Files |-> Plain]
  /\ denied \in {{}, {NumDirs}}
  /\ argv = <<>>
  /\ run = 1
  /\ prev = <<>>
  /\ NotStarted

\* One execution of the script on such a file system.
SpecExt == InitExt /\ [][Next]_vars

\* ------------------------------------------------------------ the claims
PathOf(f) == [root |-> RootPath(DirOf(f), base_dir), file |-> name[f]]

Mentions(kind, f) ==
  {i \in DOMAIN out : out[i].kind = kind /\ out[i].path = PathOf(f)}

InTry(f) == file = f /\ pc \in {"open", "read", "header", "fence", "content", "close"}
InHandler(f) == file = f /\ pc = "except"

\* The position of the last dot of a name (0 when it has none).
LastDot(n) ==
  IF \E i \in 1..Len(n) : n[i] = "."
  THEN CHOOSE i \in 1..Len(n) : n[i] = "." /\ \A j \in (i + 1)..Len(n) : n[j] # "."
  ELSE 0

Suffix(n, i) == [k \in 1..(Len(n) + 1 - i) |-> n[i + k - 1]]

\* The extension as C10 words it: empty when the name has no dot or its only
\* dot is its leading character, else the text from the last dot on.
ExtAsClaimed(n) ==
  IF LastDot(n) = 0 \/ {i \in 1..Len(n) : n[i] = "."} = {1}
  THEN <<>>
  ELSE Suffix(n, LastDot(n))

\* The extension as amended: empty when the name has no dot or only dots come
\* before its last dot, else the text from the last dot on.
ExtAmended(n) ==
  IF LastDot(n) = 0 \/ \A j \in 1..(LastDot(n) - 1) : n[j] = "."
  THEN <<>>
  ELSE Suffix(n, LastDot(n))

Matching(n) == lower(ExtAmended(n)) \in valid_extensions

\* File f lies beneath the root, in a directory that can be listed from there.
Reached(f) ==
  /\ Beneath(DirOf(f), base_dir)
  /\ Chars(RootPath(DirOf(f), base_dir)) \cap denied = {}

\* C1: when the run has ended, every file in a listable directory beneath the
\* root whose lower-cased extension is in the set is named by exactly one line
\* of the output (its header or its diagnostic): none is skipped, none is
\* emitted twice.
C1_EveryMatchingFileOnce ==
  pc = "exit" =>
    \A f \in Files :
      (Reached(f) /\ Matching(name[f])) =>
        Cardinality(Mentions("header", f) \cup Mentions("diag", f)) = 1

\* C2: a file whose lower-cased extension is outside the set is never opened,
\* is never the file of the try statement, and no header or diagnostic line
\* names it.
C2_OthersNeverTouched ==
  \A f \in Files :
    ~Matching(name[f]) =>
      /\ opens[f] = 0
      /\ f \notin isOpen
      /\ ~InTry(f) /\ ~InHandler(f)
      /\ Mentions("header", f) = {} /\ Mentions("diag", f) = {}

C2_Witness ==
  /\ pc = "exit" /\ status = 0
  /\ \E f \in skipped : ~perm[f]
  /\ \E f \in Files : Mentions("header", f) # {}

\* C3: once the handler is done with a file that open() or f.read() raised
\* for, the output holds exactly one diagnostic line and no header line with
\* its path, and the run has not been ended by that failure.
C3_ReadFailureReported ==
  \A f \in readFailed :
    InHandler(f) \/
      /\ Cardinality(Mentions("diag", f)) = 1
      /\ Mentions("header", f) = {}
      /\ ~(pc = "exit" /\ status # 0 /\ file = f)

\* C4 as stated: with a command-line argument the traversal starts at the
\* directory it names, and without one at the current working directory.
C4_ArgumentIsRoot ==
  pc # "start" => base_dir = (IF argv # <<>> THEN argv[1] ELSE Cwd)

\* C4 as amended: the traversal starts at the current working directory
\* whether or not a command-line argument is given.
C4_AlwaysCwd ==
  pc # "start" =>
    /\ base_dir = Cwd
    /\ root = 0 => stack \in {<<Cwd>>, <<>>}
    /\ root # 0 => Beneath(root, Cwd)

C4_Witness == argv # <<>> /\ pc = "files" /\ root = Cwd

\* C5: the run ends with exit status zero.
C5_ExitsZero == pc = "exit" => status = 0

\* C6: once the try statement is done with a file that f.read() returned
\* for, the output holds, contiguously and in this order, its header line, an
\* empty line, a fence, its content, a fence and an empty line.
C6_BlockLayout ==
  \A f \in readOk :
    InTry(f) \/
      \E i \in DOMAIN out :
        /\ i + 5 \in DOMAIN out
        /\ out[i] = Line("header", PathOf(f), <<>>)
        /\ out[i + 1] = Blank
        /\ out[i + 2] = Fence
        /\ out[i + 3] = Line("content", NoPath, data[f])
        /\ out[i + 4] = Fence
        /\ out[i + 5] = Blank

Count(seq, line) == Cardinality({i \in DOMAIN seq : seq[i] = line})
Lines(seq) == {seq[i] : i \in DOMAIN seq}

\* C7: when the second run on the unchanged tree has ended, it has printed
\* the same multiset of lines as the first.
C7_SameOutputTwice ==
  (run = 2 /\ pc = "exit") =>
    \A line \in Lines(out) \cup Lines(prev) : Count(out, line) = Count(prev, line)

\* C8: at most one file is open, and only between its open() and the end of
\* the with statement; no file is opened twice; none is open when the try
\* statement has been left, for the handler or for good, or the run has ended.
C8_OpenedReadClosed ==
  /\ Cardinality(isOpen) <= 1
  /\ isOpen # {} => (pc = "read" /\ isOpen = {file})
  /\ \A f \in Files : opens[f] <= 1
  /\ pc \in {"except", "exit", "files", "walk"} => isOpen = {}

C8_Witness ==
  /\ pc = "except"
  /\ exc = "UnicodeDecodeError"
  /\ opens[file] = 1
  /\ \E f \in readOk : f # file

\* C9: no path has both a header line and a diagnostic line in the output.
C9_BlockOrDiagnostic ==
  \A i, j \in DOMAIN out :
    (out[i].kind = "header" /\ out[j].kind = "diag") => out[i].path # out[j].path

Taken(f) == opens[f] > 0 \/ (file = f /\ pc = "open")

\* C10 as stated: a file the loop has looked at is processed exactly when the
\* extension of C10's wording, lower-cased, is in the set.
C10_LastDotSuffix ==
  \A f \in Files :
    /\ Taken(f) => lower(ExtAsClaimed(name[f])) \in valid_extensions
    /\ f \in skipped => lower(ExtAsClaimed(name[f])) \notin valid_extensions

\* C10 as amended: a file the loop has looked at is processed exactly when
\* the lower-cased text from its last dot on is in the set and some character
\* other than a dot comes before that dot.
C10_LastDotSuffixAfterStem ==
  \A f \in Files :
    /\ Taken(f) => lower(ExtAmended(name[f])) \in valid_extensions
    /\ f \in skipped => lower(ExtAmended(name[f])) \notin valid_extensions
    /\ ~(Taken(f) /\ f \in skipped)
    /\ (pc = "exit" /\ status = 0 /\ denied = {}) => (Taken(f) \/ f \in skipped)

C10_Witness ==
  /\ pc = "exit"
  /\ \E f \in skipped : name[f] = <<".", ".", "m", "d">>

====
